---- MODULE Spec2Model ----
(***************************************************************************)
(* Live event fan-out of src/app/app.py: broadcast_sse (the publisher),    *)
(* events / events.event_stream (one stream session per connection) and    *)
(* the shared state sse_events, sse_connections, sse_lock.                 *)
(*                                                                         *)
(* Python indices are 0-based, TLA+ sequences 1-based: the Python          *)
(* expression sse_events[i] is written sse_events[i + 1] here, and every   *)
(* index variable of the model (idx, last_event_index, ...) holds the      *)
(* Python value.                                                           *)
(*                                                                         *)
(* Every step of a thread that reads or writes shared state is an action   *)
(* of its own, because the stream sessions read sse_events without taking  *)
(* sse_lock (lines 109, 116, 117, 134, 138, 139).                          *)
(***************************************************************************)
EXTENDS Integers, Sequences, FiniteSets, TLC

\* ---------------------------------------------------------------- bounds
\* Request threads that call broadcast_sse: p1 is a create_user request
\* (line 250), p2 a delete_user request (line 278).
Pubs == {"p1", "p2"}

\* Streaming connections (one events() call each).
Sess == {"s1", "s2"}

\* Total number of broadcast_sse calls in one behaviour.
MaxPub == 3

\* Number of broadcast_sse calls in the behaviours of SpecPubFair, where the
\* subscriber may never read.
MaxPubUnread == 2

\* Number of broadcast_sse calls in the behaviours with two connections.
MaxPubTwo == 2

\* Largest value of the clock (time.time()).
MaxTime == 4
MaxPubDead == 1
MaxPubPoll == 3
MaxRetries == 5
MaxDelay == 2

\* ------------------------------------------------------ program constants
\* Line 67: "if len(sse_events) > 100".  Scaled from 100 to 2 so that the
\* log reaches its bound and evicts within MaxPub publishes.
LogBound == 2

\* Line 115: "max(0, last_event_index - 10)".  Scaled from 10 to 1 so that
\* the replay window is shorter than the log.
ReplayWindow == 1

\* Line 147: "current_time - last_heartbeat > 30".  Scaled from 30 to 1.
HeartbeatInterval == 1

\* The polling revision (sse_test_server.py): "if len(sse_events) > 50" and
\* "> 30", scaled down the same way.
TestLogBound == 2
TestHeartbeatInterval == 1

NoLock == "free"

VARIABLES
    sse_events,          \* line 27: the shared event log
    sse_connections,     \* line 25: the registry, a list of queues (named by session)
    sse_lock,            \* line 26: NoLock or the thread holding it
    bpc,                 \* position of each broadcast_sse call
    entry_id,            \* event_entry['id'] of each call (line 59)
    entry_n,             \* which appended object event_entry is (0: not appended)
    fan_i,               \* loop index of "for i, connection in enumerate(...)"
    dead_connections,    \* line 72, per call
    remaining,           \* broadcast_sse calls still to come
    appended,            \* number of appends so far: names the event objects
    spc,                 \* position of each stream session
    atYield,             \* the generator is suspended at a yield
    queue,               \* connection_queue of each session (line 94)
    last_event_index,    \* line 109 / 143
    idx,                 \* loop variable i of lines 115 and 137
    current_event_count, \* line 134
    emitted,             \* what the generator has yielded to the client so far
    exc,                 \* the exception that ended the generator, if any
    registered_at,       \* how many events had been appended when s registered
    last_emission,       \* the time of the last yield of each generator
    now,                 \* time.time()
    last_heartbeat,      \* line 108 / 151
    current_time,        \* line 146
    broken,              \* queues whose put_nowait raises
    rpc,                 \* position of each request handler (create_user, delete_user)
    logged_in,           \* 'logged_in' in session, for each request
    req_user,            \* the user each request names (username / user_id)
    users,               \* the rows of the User table
    committed,           \* db.session.commit() of each request has succeeded
    ipc,                 \* where init_db_with_retry is
    max_retries,         \* its parameters
    delay,
    attempt,             \* its loop variable
    tries,               \* the number of db.create_all() calls made so far
    slept                \* the total time spent in time.sleep(delay)

pvars == <<bpc, entry_id, entry_n, fan_i, dead_connections, remaining, appended>>
svars == <<spc, atYield, last_event_index, idx, current_event_count, emitted,
           exc, registered_at, last_emission, last_heartbeat, current_time>>
rvars == <<logged_in, req_user, users, committed>>
dvars == <<ipc, max_retries, delay, attempt, tries, slept>>
vars == <<sse_events, sse_connections, sse_lock, pvars, svars, queue, now, broken,
          rpc, rvars, dvars>>

\* ---------------------------------------------------------------- helpers
\* The replay range starting at 0: "range(0, last_event_index)".
ReplayFromZero(a, b) == a

\* max(0, last_event_index - 10), line 115
Max(a, b) == IF a > b THEN a ELSE b

\* The users a request can name: username for create_user, user_id for
\* delete_user.
Users == {"u1", "u2"}

\* The handler each request thread runs.
Handler(p) == IF p = "p1" THEN "create_user" ELSE "delete_user"

\* The event name each request thread publishes (lines 250, 278).
EventOf(p) == IF p = "p1" THEN "user_created" ELSE "user_deleted"

\* event_entry (lines 55-60).  The field n is not in the code: it numbers the
\* dict objects in the order they are appended, so that two entries with the
\* same 'id' can still be told apart.
Entry(p, k) == [event |-> EventOf(p), id |-> entry_id[p], n |-> k]

ConnectedItem == [event |-> "connected", id |-> -1, n |-> 0]
\* Lines 148-150: the heartbeat carries current_time as its timestamp.
HeartbeatItem(t) == [event |-> "heartbeat", id |-> -1, n |-> 0, timestamp |-> t]

\* A blocking put on a queue of capacity 1 instead of put_nowait.
PutWaitsForRoom(q) == Len(q) >= 1

\* list.pop() instead of list.pop(0): evicts the newest entry.
PopLast(l) == SubSeq(l, 1, Len(l) - 1)

\* list.pop(0)
PopHead(l) == SubSeq(l, 2, Len(l))

\* Line 76: put_nowait on queue.Queue() (unbounded) never waits for room,
\* whatever the depth of the queue.
PutWaits(q) == FALSE

\* "for i in reversed(dead_connections): sse_connections.pop(i)" (lines 83-84);
\* dead holds 0-based positions.
\* The pops of line 84 made in the order the indices were recorded, lowest
\* first: each pop shifts the entries behind it.
RemoveDeadForward(conns, dead) ==
    LET G[k \in 0..Len(dead)] ==
            IF k = 0 THEN conns
            ELSE IF dead[k] < Len(G[k - 1])
            THEN SubSeq(G[k - 1], 1, dead[k]) \o
                 SubSeq(G[k - 1], dead[k] + 2, Len(G[k - 1]))
            ELSE G[k - 1]
    IN G[Len(dead)]

RemoveDead(conns, dead) ==
    LET deadSet == {dead[j] : j \in 1..Len(dead)}
        keep == {j \in 1..Len(conns) : (j - 1) \notin deadSet}
        F[j \in 0..Len(conns)] ==
            IF j = 0 THEN <<>>
            ELSE IF j \in keep THEN Append(F[j - 1], conns[j]) ELSE F[j - 1]
    IN F[Len(conns)]

\* The finally block without the remove call.
\* Removing the oldest registration, whosever it is.
RemoveOldest(conns, s) == IF conns = <<>> THEN conns ELSE Tail(conns)

KeepRegistered(conns, s) == conns

\* sse_connections.remove(connection_queue), ValueError swallowed (lines 164-168):
\* removes the first occurrence, no-op when absent.
RemoveFirst(conns, s) ==
    IF \E j \in 1..Len(conns) : conns[j] = s
    THEN LET k == CHOOSE j \in 1..Len(conns) :
                    conns[j] = s /\ \A m \in 1..(j - 1) : conns[m] # s
         IN SubSeq(conns, 1, k - 1) \o SubSeq(conns, k + 1, Len(conns))
    ELSE conns

Registered(s) == \E j \in 1..Len(sse_connections) : sse_connections[j] = s

\* ------------------------------------------------------------------- Init
\* S: the connections that will be opened, P: the request threads that will
\* publish, n: the number of broadcast_sse calls, B: the queues whose
\* put_nowait raises.  A connection outside S stays "absent" and a thread
\* outside P stays "off": neither ever takes a step.  InitCore leaves the
\* request handlers' variables to the specification.
InitCore(S, P, n, B) ==
    /\ sse_events = <<>>
    /\ sse_connections = <<>>
    /\ sse_lock = NoLock
    /\ bpc = [p \in Pubs |-> IF p \in P THEN "idle" ELSE "off"]
    /\ entry_id = [p \in Pubs |-> 0]
    /\ entry_n = [p \in Pubs |-> 0]
    /\ fan_i = [p \in Pubs |-> 0]
    /\ dead_connections = [p \in Pubs |-> <<>>]
    /\ remaining = n
    /\ appended = 0
    /\ spc = [s \in Sess |-> IF s \in S THEN "new" ELSE "absent"]
    /\ atYield = [s \in Sess |-> FALSE]
    /\ queue = [s \in Sess |-> <<>>]
    /\ last_event_index = [s \in Sess |-> 0]
    /\ idx = [s \in Sess |-> 0]
    /\ current_event_count = [s \in Sess |-> 0]
    /\ emitted = [s \in Sess |-> <<>>]
    /\ exc = [s \in Sess |-> "none"]
    /\ registered_at = [s \in Sess |-> 0]
    /\ last_emission = [s \in Sess |-> 0]
    /\ now = 0
    /\ last_heartbeat = [s \in Sess |-> 0]
    /\ current_time = [s \in Sess |-> 0]
    /\ broken = B

\* The server is running: init_db_with_retry (line 389) is over.
RetryOff ==
    /\ ipc = "off"
    /\ max_retries = 0
    /\ delay = 0
    /\ attempt = 0
    /\ tries = 0
    /\ slept = 0

\* The request threads are at their broadcast_sse call (lines 250, 278) and
\* make one call after another; the handler code around the call is not run.
InitWith(S, P, n, B) ==
    /\ InitCore(S, P, n, B)
    /\ rpc = [p \in Pubs |-> "direct"]
    /\ logged_in = [p \in Pubs |-> TRUE]
    /\ req_user = [p \in Pubs |-> "none"]
    /\ users = {}
    /\ committed = [p \in Pubs |-> TRUE]
    /\ RetryOff

\* Two concurrent request threads and one streaming connection.
Init == InitWith({"s1"}, Pubs, MaxPub, {})

\* --------------------------------------------------------- broadcast_sse
\* Lines 55-60: event_entry is built, and 'id' read from len(sse_events),
\* before sse_lock is taken.
BroadcastBuild(p) ==
    /\ bpc[p] = "idle"
    /\ rpc[p] \in {"direct", "call"}
    /\ remaining > 0
    /\ remaining' = remaining - 1
    /\ entry_id' = [entry_id EXCEPT ![p] = Len(sse_events)]
    /\ bpc' = [bpc EXCEPT ![p] = "lock"]
    /\ rpc' = [rpc EXCEPT ![p] = IF @ = "call" THEN "in" ELSE @]
    /\ UNCHANGED <<dvars, sse_events, sse_connections, sse_lock, entry_n, fan_i,
                   dead_connections, appended, svars, rvars, queue, now, broken>>

\* Lines 63-85 without the "with sse_lock" of line 62.
BroadcastAcquireNoLock(p) ==
    /\ bpc[p] = "lock"
    /\ bpc' = [bpc EXCEPT ![p] = "append"]
    /\ UNCHANGED <<dvars, sse_events, sse_connections, sse_lock, entry_id, entry_n, fan_i,
                   dead_connections, remaining, appended, rpc, svars, rvars,
                   queue, now, broken>>

\* Line 62: with sse_lock
BroadcastAcquire(p) ==
    /\ bpc[p] = "lock"
    /\ sse_lock = NoLock
    /\ sse_lock' = p
    /\ bpc' = [bpc EXCEPT ![p] = "append"]
    /\ UNCHANGED <<dvars, sse_events, sse_connections, entry_id, entry_n, fan_i,
                   dead_connections, remaining, appended, rpc, svars, rvars,
                   queue, now, broken>>

\* Line 63: sse_events.append(event_entry)
BroadcastAppend(p) ==
    /\ bpc[p] = "append"
    /\ appended' = appended + 1
    /\ sse_events' = Append(sse_events, Entry(p, appended + 1))
    /\ bpc' = [bpc EXCEPT ![p] = "trim"]
    /\ entry_n' = [entry_n EXCEPT ![p] = appended + 1]
    /\ UNCHANGED <<dvars, sse_connections, sse_lock, entry_id, fan_i, dead_connections,
                   remaining, rpc, svars, rvars, queue, now, broken>>

\* Lines 67-72: evict the oldest entry when over the bound; dead_connections = []
BroadcastTrim(p) ==
    /\ bpc[p] = "trim"
    /\ sse_events' = IF Len(sse_events) > LogBound THEN PopHead(sse_events)
                     ELSE sse_events
    /\ fan_i' = [fan_i EXCEPT ![p] = 0]
    /\ dead_connections' = [dead_connections EXCEPT ![p] = <<>>]
    /\ bpc' = [bpc EXCEPT ![p] = "fanout"]
    /\ UNCHANGED <<dvars, sse_connections, sse_lock, entry_id, entry_n, remaining,
                   appended, rpc, svars, rvars, queue, now, broken>>

\* Lines 73-80: one iteration of the fan-out loop.  The entry pushed is the
\* object this call appended (entry_n).
BroadcastPush(p) ==
    /\ bpc[p] = "fanout"
    /\ fan_i[p] < Len(sse_connections)
    /\ ~PutWaits(queue[sse_connections[fan_i[p] + 1]])
    /\ LET c == sse_connections[fan_i[p] + 1]
       IN IF c \in broken
          THEN /\ dead_connections' =
                      [dead_connections EXCEPT ![p] = Append(@, fan_i[p])]
               /\ queue' = queue
          ELSE /\ queue' = [queue EXCEPT ![c] = Append(@, Entry(p, entry_n[p]))]
               /\ dead_connections' = dead_connections
    /\ fan_i' = [fan_i EXCEPT ![p] = @ + 1]
    /\ UNCHANGED <<dvars, sse_events, sse_connections, sse_lock, bpc, entry_id, entry_n,
                   remaining, appended, rpc, svars, rvars, now, broken>>

\* Lines 82-85, and the end of the with block: the lock is released and
\* broadcast_sse returns (its locals are gone); a request handler that called
\* it goes on to return its success response (lines 252, 280).
BroadcastRemoveDead(p) ==
    /\ bpc[p] = "fanout"
    /\ fan_i[p] >= Len(sse_connections)
    /\ sse_connections' = RemoveDead(sse_connections, dead_connections[p])
    /\ sse_lock' = NoLock
    /\ bpc' = [bpc EXCEPT ![p] = "idle"]
    /\ entry_n' = [entry_n EXCEPT ![p] = 0]
    /\ rpc' = [rpc EXCEPT ![p] = IF @ = "in" THEN "ok" ELSE @]
    /\ UNCHANGED <<dvars, sse_events, entry_id, fan_i, dead_connections, remaining,
                   appended, svars, rvars, queue, now, broken>>

\* ------------------------------------------------------------ events()
\* The registration of lines 97-98 without the "with sse_lock" of line 96.
EventsAcquireNoLock(s) ==
    /\ spc[s] = "new"
    /\ spc' = [spc EXCEPT ![s] = "reg"]
    /\ UNCHANGED <<dvars, sse_events, sse_connections, sse_lock, pvars, rpc, rvars, atYield,
                   last_emission, registered_at, last_event_index, idx,
                   current_event_count, emitted, exc, last_heartbeat, current_time,
                   queue, now, broken>>

\* Line 96: with sse_lock
EventsAcquire(s) ==
    /\ spc[s] = "new"
    /\ sse_lock = NoLock
    /\ sse_lock' = s
    /\ spc' = [spc EXCEPT ![s] = "reg"]
    /\ UNCHANGED <<dvars, sse_events, sse_connections, pvars, rpc, rvars, atYield, last_emission, registered_at, last_event_index,
                   idx, current_event_count, emitted, exc, last_heartbeat, current_time,
                   queue, now, broken>>

\* Lines 97-101 and 170: the queue is registered, the lock released and the
\* generator object created; none of its body has run yet.
EventsRegister(s) ==
    /\ spc[s] = "reg"
    /\ sse_connections' = Append(sse_connections, s)
    /\ sse_lock' = NoLock
    /\ spc' = [spc EXCEPT ![s] = "created"]
    /\ registered_at' = [registered_at EXCEPT ![s] = appended]
    /\ UNCHANGED <<dvars, sse_events, pvars, rpc, rvars, atYield, last_emission, last_event_index, idx,
                   current_event_count, emitted, exc, last_heartbeat, current_time,
                   queue, now, broken>>

\* ------------------------------------------------- events.event_stream()
\* A generator step that yields item to the client and suspends there.
Yield(s, item) ==
    /\ emitted' = [emitted EXCEPT ![s] = Append(@, item)]
    /\ atYield' = [atYield EXCEPT ![s] = TRUE]
    /\ exc' = exc
    /\ last_emission' = [last_emission EXCEPT ![s] = now]

\* A generator step that yields nothing.
NoYield(s) ==
    /\ emitted' = emitted
    /\ atYield' = [atYield EXCEPT ![s] = FALSE]
    /\ exc' = exc
    /\ last_emission' = last_emission

\* A generator step that ends with exception e leaving the loop.
Raise(s, e) ==
    /\ emitted' = emitted
    /\ atYield' = [atYield EXCEPT ![s] = FALSE]
    /\ exc' = [exc EXCEPT ![s] = e]
    /\ last_emission' = last_emission

\* The start of the generator without the "yield initial_msg" of line 106.
StartSilent(s) ==
    /\ spc[s] = "created"
    /\ NoYield(s)
    /\ spc' = [spc EXCEPT ![s] = "connected"]
    /\ UNCHANGED <<dvars, sse_events, sse_connections, sse_lock, pvars, rpc, rvars, registered_at, last_event_index,
                   idx, current_event_count, last_heartbeat, current_time,
                   queue, now, broken>>

\* Lines 102-106: the first next() runs the generator to "yield initial_msg".
Start(s) ==
    /\ spc[s] = "created"
    /\ Yield(s, ConnectedItem)
    /\ spc' = [spc EXCEPT ![s] = "connected"]
    /\ UNCHANGED <<dvars, sse_events, sse_connections, sse_lock, pvars, rpc, rvars, registered_at, last_event_index,
                   idx, current_event_count, last_heartbeat, current_time,
                   queue, now, broken>>

\* generator.close() on a generator that was never started (the response is
\* closed without being iterated, as for a HEAD request): no line of
\* event_stream runs, so neither does the finally block of lines 161-168.
CloseUnstarted(s) ==
    /\ spc[s] = "created"
    /\ spc' = [spc EXCEPT ![s] = "closed_unstarted"]
    /\ UNCHANGED <<dvars, sse_events, sse_connections, sse_lock, pvars, rpc, rvars, atYield,
                   last_emission, registered_at, last_event_index, idx, current_event_count, emitted, exc,
                   last_heartbeat, current_time, queue, now, broken>>

\* Lines 108-115: last_heartbeat, last_event_index = len(sse_events) (read
\* without the lock) and the start of the replay range.
ReadIndex(s) ==
    /\ spc[s] = "connected"
    /\ last_heartbeat' = [last_heartbeat EXCEPT ![s] = now]
    /\ last_event_index' = [last_event_index EXCEPT ![s] = Len(sse_events)]
    /\ idx' = [idx EXCEPT ![s] = Max(0, Len(sse_events) - ReplayWindow)]
    /\ NoYield(s)
    /\ spc' = [spc EXCEPT ![s] = "replay"]
    /\ UNCHANGED <<dvars, sse_events, sse_connections, sse_lock, pvars, rpc, rvars,
                   registered_at, current_event_count, current_time, queue, now,
                   broken>>

\* Lines 115-116: the loop head of the replay and "if i < len(sse_events)".
\* (With last_event_index = 0 the range is empty, as the guard of line 113.)
ReplayCheck(s) ==
    /\ spc[s] = "replay"
    /\ NoYield(s)
    /\ IF idx[s] >= last_event_index[s]
       THEN /\ spc' = [spc EXCEPT ![s] = "live"]
            /\ idx' = idx
       ELSE IF idx[s] < Len(sse_events)
       THEN /\ spc' = [spc EXCEPT ![s] = "replay_read"]
            /\ idx' = idx
       ELSE /\ spc' = spc
            /\ idx' = [idx EXCEPT ![s] = @ + 1]
    /\ UNCHANGED <<dvars, sse_events, sse_connections, sse_lock, pvars, rpc, rvars, registered_at, last_event_index,
                   current_event_count, last_heartbeat, current_time,
                   queue, now, broken>>

\* Lines 117-119: event_data = sse_events[i]; yield.  The list may have
\* shrunk since the check of line 116: then sse_events[i] raises IndexError,
\* which leaves the generator through the finally block.
ReplayRead(s) ==
    /\ spc[s] = "replay_read"
    /\ IF idx[s] < Len(sse_events)
       THEN /\ Yield(s, sse_events[idx[s] + 1])
            /\ idx' = [idx EXCEPT ![s] = @ + 1]
            /\ spc' = [spc EXCEPT ![s] = "replay"]
       ELSE /\ Raise(s, "IndexError")
            /\ idx' = idx
            /\ spc' = [spc EXCEPT ![s] = "finally"]
    /\ UNCHANGED <<dvars, sse_events, sse_connections, sse_lock, pvars, rpc, rvars, registered_at, last_event_index,
                   current_event_count, last_heartbeat, current_time,
                   queue, now, broken>>

\* Lines 125-131: connection_queue.get_nowait(); yield and continue, or
\* queue.Empty and fall through to the fallback poll.
QueueGet(s) ==
    /\ spc[s] = "live"
    /\ IF queue[s] # <<>>
       THEN /\ Yield(s, Head(queue[s]))
            /\ queue' = [queue EXCEPT ![s] = Tail(@)]
            /\ spc' = spc
       ELSE /\ NoYield(s)
            /\ queue' = queue
            /\ spc' = [spc EXCEPT ![s] = "poll"]
    /\ UNCHANGED <<dvars, sse_events, sse_connections, sse_lock, pvars, rpc, rvars, registered_at, last_event_index,
                   idx, current_event_count, last_heartbeat, current_time,
                   now, broken>>

\* Lines 134-137: current_event_count = len(sse_events), compared with
\* last_event_index.
PollCount(s) ==
    /\ spc[s] = "poll"
    /\ current_event_count' = [current_event_count EXCEPT ![s] = Len(sse_events)]
    /\ NoYield(s)
    /\ IF Len(sse_events) > last_event_index[s]
       THEN /\ idx' = [idx EXCEPT ![s] = last_event_index[s]]
            /\ spc' = [spc EXCEPT ![s] = "fb"]
       ELSE /\ idx' = idx
            /\ spc' = [spc EXCEPT ![s] = "hb"]
    /\ UNCHANGED <<dvars, sse_events, sse_connections, sse_lock, pvars, rpc, rvars, registered_at, last_event_index,
                   last_heartbeat, current_time, queue, now, broken>>

\* Lines 137-138 and 143: the loop head of the fallback poll and
\* "if i < len(sse_events)"; after the loop last_event_index is advanced.
FallbackCheck(s) ==
    /\ spc[s] = "fb"
    /\ NoYield(s)
    /\ IF idx[s] >= current_event_count[s]
       THEN /\ last_event_index' =
                   [last_event_index EXCEPT ![s] = current_event_count[s]]
            /\ spc' = [spc EXCEPT ![s] = "hb"]
            /\ idx' = idx
       ELSE IF idx[s] < Len(sse_events)
       THEN /\ spc' = [spc EXCEPT ![s] = "fb_read"]
            /\ UNCHANGED <<dvars, idx, last_event_index>>
       ELSE /\ spc' = spc
            /\ idx' = [idx EXCEPT ![s] = @ + 1]
            /\ last_event_index' = last_event_index
    /\ UNCHANGED <<dvars, sse_events, sse_connections, sse_lock, pvars, rpc, rvars,
                   registered_at, current_event_count, last_heartbeat, current_time,
                   queue, now, broken>>

\* Lines 139-142: event_data = sse_events[i]; yield.  An IndexError here is
\* caught by "except Exception" (lines 158-160), which breaks out of the loop.
FallbackRead(s) ==
    /\ spc[s] = "fb_read"
    /\ IF idx[s] < Len(sse_events)
       THEN /\ Yield(s, sse_events[idx[s] + 1])
            /\ idx' = [idx EXCEPT ![s] = @ + 1]
            /\ spc' = [spc EXCEPT ![s] = "fb"]
       ELSE /\ Raise(s, "IndexError")
            /\ idx' = idx
            /\ spc' = [spc EXCEPT ![s] = "finally"]
    /\ UNCHANGED <<dvars, sse_events, sse_connections, sse_lock, pvars, rpc, rvars, registered_at, last_event_index,
                   current_event_count, last_heartbeat, current_time,
                   queue, now, broken>>

\* The heartbeat of lines 146-151 without "last_heartbeat = current_time".
HeartbeatNoReset(s) ==
    /\ spc[s] \in {"hb", "hb_y"}
    /\ IF spc[s] = "hb"
       THEN /\ current_time' = [current_time EXCEPT ![s] = now]
            /\ last_heartbeat' = last_heartbeat
            /\ IF now - last_heartbeat[s] > HeartbeatInterval
               THEN /\ Yield(s, HeartbeatItem(now))
                    /\ spc' = [spc EXCEPT ![s] = "hb_y"]
               ELSE /\ NoYield(s)
                    /\ spc' = [spc EXCEPT ![s] = "live"]
       ELSE /\ last_heartbeat' = last_heartbeat
            /\ current_time' = current_time
            /\ NoYield(s)
            /\ spc' = [spc EXCEPT ![s] = "live"]
    /\ UNCHANGED <<dvars, sse_events, sse_connections, sse_lock, pvars, rpc, rvars, registered_at, last_event_index,
                   idx, current_event_count, queue, now, broken>>

\* The heartbeat of lines 146-151, also appended to the shared log.
HeartbeatLogged(s) ==
    /\ spc[s] \in {"hb", "hb_y"}
    /\ IF spc[s] = "hb"
       THEN /\ current_time' = [current_time EXCEPT ![s] = now]
            /\ last_heartbeat' = last_heartbeat
            /\ IF now - last_heartbeat[s] > HeartbeatInterval
               THEN /\ Yield(s, HeartbeatItem(now))
                    /\ spc' = [spc EXCEPT ![s] = "hb_y"]
               ELSE /\ NoYield(s)
                    /\ spc' = [spc EXCEPT ![s] = "live"]
       ELSE /\ last_heartbeat' = [last_heartbeat EXCEPT ![s] = current_time[s]]
            /\ current_time' = current_time
            /\ NoYield(s)
            /\ spc' = [spc EXCEPT ![s] = "live"]
    /\ sse_events' =
           IF spc[s] = "hb" /\ now - last_heartbeat[s] > HeartbeatInterval
           THEN Append(sse_events, HeartbeatItem(now))
           ELSE sse_events
    /\ UNCHANGED <<dvars, sse_connections, sse_lock, pvars, rpc, rvars, registered_at, last_event_index,
                   idx, current_event_count, queue, now, broken>>

\* Lines 146-153: the heartbeat check, the heartbeat and the sleep.  At "hb"
\* the time is read and compared; at "hb_y" the generator resumes after
\* "yield heartbeat_msg" and records last_heartbeat.
Heartbeat(s) ==
    /\ spc[s] \in {"hb", "hb_y"}
    /\ IF spc[s] = "hb"
       THEN /\ current_time' = [current_time EXCEPT ![s] = now]
            /\ last_heartbeat' = last_heartbeat
            /\ IF now - last_heartbeat[s] > HeartbeatInterval
               THEN /\ Yield(s, HeartbeatItem(now))
                    /\ spc' = [spc EXCEPT ![s] = "hb_y"]
               ELSE /\ NoYield(s)
                    /\ spc' = [spc EXCEPT ![s] = "live"]
       ELSE /\ last_heartbeat' = [last_heartbeat EXCEPT ![s] = current_time[s]]
            /\ current_time' = current_time
            /\ NoYield(s)
            /\ spc' = [spc EXCEPT ![s] = "live"]
    /\ UNCHANGED <<dvars, sse_events, sse_connections, sse_lock, pvars, rpc, rvars, registered_at, last_event_index,
                   idx, current_event_count, queue, now, broken>>

Running(s) ==
    spc[s] \in {"connected", "replay", "replay_read", "live", "poll", "fb",
                "fb_read", "hb", "hb_y"}

\* The client goes away: close() throws GeneratorExit at the yield where the
\* generator is suspended.  At lines 106 and 119 it propagates, at lines 128,
\* 142 and 150 it is caught by line 155 and breaks the loop; either way the
\* next thing to run is the finally block.
Disconnect(s) ==
    /\ Running(s)
    /\ atYield[s]
    /\ spc' = [spc EXCEPT ![s] = "finally"]
    /\ Raise(s, "GeneratorExit")
    /\ UNCHANGED <<dvars, sse_events, sse_connections, sse_lock, pvars, rpc, rvars, registered_at, last_event_index,
                   idx, current_event_count, last_heartbeat, current_time,
                   queue, now, broken>>

\* The removal of lines 164-168 without the "with sse_lock" of line 163.
CleanupAcquireNoLock(s) ==
    /\ spc[s] = "finally"
    /\ spc' = [spc EXCEPT ![s] = "remove"]
    /\ UNCHANGED <<dvars, sse_events, sse_connections, sse_lock, pvars, rpc, rvars, atYield,
                   last_emission, registered_at, last_event_index, idx,
                   current_event_count, emitted, exc, last_heartbeat, current_time,
                   queue, now, broken>>

\* Line 163: with sse_lock
CleanupAcquire(s) ==
    /\ spc[s] = "finally"
    /\ sse_lock = NoLock
    /\ sse_lock' = s
    /\ spc' = [spc EXCEPT ![s] = "remove"]
    /\ UNCHANGED <<dvars, sse_events, sse_connections, pvars, rpc, rvars, atYield, last_emission, registered_at, last_event_index,
                   idx, current_event_count, emitted, exc, last_heartbeat, current_time,
                   queue, now, broken>>

\* Lines 164-168: sse_connections.remove(connection_queue), ValueError
\* swallowed; the lock is released.
CleanupRemove(s) ==
    /\ spc[s] = "remove"
    /\ sse_connections' = RemoveFirst(sse_connections, s)
    /\ sse_lock' = NoLock
    /\ spc' = [spc EXCEPT ![s] = "closed"]
    /\ UNCHANGED <<dvars, sse_events, pvars, rpc, rvars, atYield, last_emission, registered_at, last_event_index, idx,
                   current_event_count, emitted, exc, last_heartbeat, current_time,
                   queue, now, broken>>

\* Time passes.
Tick ==
    /\ now < MaxTime
    /\ now' = now + 1
    /\ UNCHANGED <<dvars, sse_events, sse_connections, sse_lock, pvars, rpc, rvars, svars,
                   queue, broken>>

\* ------------------------------------------- create_user, delete_user
\* create_user, lines 225-238: the login check, the required fields and the
\* unique username.  delete_user, line 260: get_or_404, whose NotFound is
\* caught by line 282; delete_user has no login check.
ReqCheck(p) ==
    /\ rpc[p] = "start"
    /\ rpc' = [rpc EXCEPT ![p] =
           IF Handler(p) = "create_user"
           THEN IF ~logged_in[p] THEN "r401"
                ELSE IF req_user[p] = "none" \/ req_user[p] \in users THEN "r400"
                ELSE "identity"
           ELSE IF req_user[p] \in users THEN "identity" ELSE "r500"]
    /\ UNCHANGED <<dvars, sse_events, sse_connections, sse_lock, pvars, svars, rvars,
                   queue, now, broken>>

\* create_user, line 242: create_identity_center_user, which re-raises a
\* failure (line 369), caught by line 254.  delete_user, lines 263-271: the
\* directory call, whose failure is only printed.
ReqIdentity(p) ==
    /\ rpc[p] = "identity"
    /\ \E ok \in BOOLEAN :
           rpc' = [rpc EXCEPT ![p] =
               IF ok \/ Handler(p) = "delete_user" THEN "commit" ELSE "r500"]
    /\ UNCHANGED <<dvars, sse_events, sse_connections, sse_lock, pvars, svars, rvars,
                   queue, now, broken>>

\* A commit whose failure is swallowed: the handler goes on to broadcast.
ReqCommitSwallowed(p) ==
    /\ rpc[p] = "commit"
    /\ \E ok \in BOOLEAN :
           /\ committed' = [committed EXCEPT ![p] = ok]
           /\ users' = IF ~ok THEN users
                       ELSE IF Handler(p) = "create_user"
                       THEN users \cup {req_user[p]}
                       ELSE users \ {req_user[p]}
           /\ rpc' = [rpc EXCEPT ![p] = "call"]
    /\ UNCHANGED <<dvars, sse_events, sse_connections, sse_lock, pvars, svars,
                   logged_in, req_user, queue, now, broken>>

\* Lines 245-247 and 274-275: the row is added or deleted and committed; a
\* failure is caught by lines 254 and 282, before the broadcast_sse call.
ReqCommit(p) ==
    /\ rpc[p] = "commit"
    /\ \E ok \in BOOLEAN :
           /\ committed' = [committed EXCEPT ![p] = ok]
           /\ users' = IF ~ok THEN users
                       ELSE IF Handler(p) = "create_user"
                       THEN users \cup {req_user[p]}
                       ELSE users \ {req_user[p]}
           /\ rpc' = [rpc EXCEPT ![p] = IF ok THEN "call" ELSE "r500"]
    /\ UNCHANGED <<dvars, sse_events, sse_connections, sse_lock, pvars, svars,
                   logged_in, req_user, queue, now, broken>>

ReqStep(p) ==
    \/ ReqCheck(p)
    \/ ReqIdentity(p)
    \/ ReqCommit(p)

\* ------------------------------------------------- init_db_with_retry
\* Line 377: the head of "for attempt in range(max_retries)"; when the range
\* is exhausted the function falls off its end.
RetryLoop ==
    /\ ipc = "loop"
    /\ ipc' = IF attempt < max_retries THEN "try" ELSE "returned"
    /\ UNCHANGED <<sse_events, sse_connections, sse_lock, pvars, svars, queue,
                   now, broken, rpc, rvars, max_retries, delay, attempt, tries,
                   slept>>

\* Lines 378-383: db.create_all() succeeds, and the function returns, or
\* raises.
RetryTry ==
    /\ ipc = "try"
    /\ tries' = tries + 1
    /\ \E ok \in BOOLEAN : ipc' = IF ok THEN "returned" ELSE "except"
    /\ UNCHANGED <<sse_events, sse_connections, sse_lock, pvars, svars, queue,
                   now, broken, rpc, rvars, max_retries, delay, attempt, slept>>

\* The handler of lines 384-390 without its else branch: it sleeps after
\* every failure.
RetryExceptNoRaise ==
    /\ ipc = "except"
    /\ ipc' = "sleep"
    /\ UNCHANGED <<sse_events, sse_connections, sse_lock, pvars, svars, queue,
                   now, broken, rpc, rvars, max_retries, delay, attempt, tries,
                   slept>>

\* Lines 384-390: sleep when attempts are left, else re-raise.
RetryExcept ==
    /\ ipc = "except"
    /\ ipc' = IF attempt < max_retries - 1 THEN "sleep" ELSE "raised"
    /\ UNCHANGED <<sse_events, sse_connections, sse_lock, pvars, svars, queue,
                   now, broken, rpc, rvars, max_retries, delay, attempt, tries,
                   slept>>

\* Line 387: time.sleep(delay), then the next iteration.
RetrySleep ==
    /\ ipc = "sleep"
    /\ slept' = slept + delay
    /\ attempt' = attempt + 1
    /\ ipc' = "loop"
    /\ UNCHANGED <<sse_events, sse_connections, sse_lock, pvars, svars, queue,
                   now, broken, rpc, rvars, max_retries, delay, tries>>

\* ------------------------------------ sse_test_server.py, the polling revision
\* It has the shared list sse_events but no registry, queues or lock: every
\* connection polls the list.  Its state is held in the variables of the same
\* names; a connection's positions start with "t_".

\* sse_test_server.py lines 21-27: the entry is built and appended.
TestBroadcastAppend(p) ==
    /\ bpc[p] = "idle"
    /\ remaining > 0
    /\ remaining' = remaining - 1
    /\ appended' = appended + 1
    /\ sse_events' = Append(sse_events,
           [event |-> EventOf(p), id |-> Len(sse_events), n |-> appended + 1])
    /\ bpc' = [bpc EXCEPT ![p] = "trim"]
    /\ UNCHANGED <<dvars, sse_connections, sse_lock, entry_id, entry_n, fan_i,
                   dead_connections, rpc, svars, rvars, queue, now, broken>>

\* sse_test_server.py lines 28-29: if len(sse_events) > 50: pop(0)
TestBroadcastTrim(p) ==
    /\ bpc[p] = "trim"
    /\ sse_events' = IF Len(sse_events) > TestLogBound THEN PopHead(sse_events)
                     ELSE sse_events
    /\ bpc' = [bpc EXCEPT ![p] = "idle"]
    /\ UNCHANGED <<dvars, sse_connections, sse_lock, entry_id, entry_n, fan_i,
                   dead_connections, remaining, appended, rpc, svars, rvars,
                   queue, now, broken>>

\* sse_test_server.py lines 173-176 and 203: the generator object is created.
TestEvents(s) ==
    /\ spc[s] = "new"
    /\ spc' = [spc EXCEPT ![s] = "t_created"]
    /\ UNCHANGED <<dvars, sse_events, sse_connections, sse_lock, pvars, rpc, rvars, atYield,
                   last_emission, registered_at, last_event_index, idx,
                   current_event_count, emitted, exc, last_heartbeat, current_time,
                   queue, now, broken>>

\* sse_test_server.py line 179: yield connected.
TestStart(s) ==
    /\ spc[s] = "t_created"
    /\ Yield(s, ConnectedItem)
    /\ spc' = [spc EXCEPT ![s] = "t_connected"]
    /\ UNCHANGED <<dvars, sse_events, sse_connections, sse_lock, pvars, rpc, rvars,
                   registered_at, last_event_index, idx, current_event_count,
                   last_heartbeat, current_time, queue, now, broken>>

\* sse_test_server.py lines 181-182.
TestReadIndex(s) ==
    /\ spc[s] = "t_connected"
    /\ last_event_index' = [last_event_index EXCEPT ![s] = Len(sse_events)]
    /\ last_heartbeat' = [last_heartbeat EXCEPT ![s] = now]
    /\ NoYield(s)
    /\ spc' = [spc EXCEPT ![s] = "t_poll"]
    /\ UNCHANGED <<dvars, sse_events, sse_connections, sse_lock, pvars, rpc, rvars,
                   registered_at, idx, current_event_count, current_time, queue,
                   now, broken>>

\* sse_test_server.py lines 187-189: current_count = len(sse_events),
\* compared with last_event_index.
TestPollCount(s) ==
    /\ spc[s] = "t_poll"
    /\ current_event_count' = [current_event_count EXCEPT ![s] = Len(sse_events)]
    /\ NoYield(s)
    /\ IF Len(sse_events) > last_event_index[s]
       THEN /\ idx' = [idx EXCEPT ![s] = last_event_index[s]]
            /\ spc' = [spc EXCEPT ![s] = "t_loop"]
       ELSE /\ idx' = idx
            /\ spc' = [spc EXCEPT ![s] = "t_hb"]
    /\ UNCHANGED <<dvars, sse_events, sse_connections, sse_lock, pvars, rpc, rvars,
                   registered_at, last_event_index, last_heartbeat, current_time,
                   queue, now, broken>>

\* sse_test_server.py lines 189-192: one iteration of the loop, or its end.
\* sse_events[i] is read without a length check; its IndexError is not
\* caught by "except GeneratorExit" (line 199) and ends the generator.
TestPollRead(s) ==
    /\ spc[s] = "t_loop"
    /\ IF idx[s] >= current_event_count[s]
       THEN /\ NoYield(s)
            /\ last_event_index' =
                   [last_event_index EXCEPT ![s] = current_event_count[s]]
            /\ idx' = idx
            /\ spc' = [spc EXCEPT ![s] = "t_hb"]
       ELSE IF idx[s] < Len(sse_events)
       THEN /\ Yield(s, sse_events[idx[s] + 1])
            /\ idx' = [idx EXCEPT ![s] = @ + 1]
            /\ UNCHANGED <<dvars, last_event_index, spc>>
       ELSE /\ Raise(s, "IndexError")
            /\ spc' = [spc EXCEPT ![s] = "t_closed"]
            /\ UNCHANGED <<dvars, last_event_index, idx>>
    /\ UNCHANGED <<dvars, sse_events, sse_connections, sse_lock, pvars, rpc, rvars,
                   registered_at, current_event_count, last_heartbeat,
                   current_time, queue, now, broken>>

\* sse_test_server.py lines 195-198: the heartbeat and the sleep.
TestHeartbeat(s) ==
    /\ spc[s] \in {"t_hb", "t_hb_y"}
    /\ IF spc[s] = "t_hb"
       THEN /\ last_heartbeat' = last_heartbeat
            /\ IF now - last_heartbeat[s] > TestHeartbeatInterval
               THEN /\ Yield(s, HeartbeatItem(now))
                    /\ spc' = [spc EXCEPT ![s] = "t_hb_y"]
               ELSE /\ NoYield(s)
                    /\ spc' = [spc EXCEPT ![s] = "t_poll"]
       ELSE /\ last_heartbeat' = [last_heartbeat EXCEPT ![s] = now]
            /\ NoYield(s)
            /\ spc' = [spc EXCEPT ![s] = "t_poll"]
    /\ UNCHANGED <<dvars, sse_events, sse_connections, sse_lock, pvars, rpc, rvars,
                   registered_at, last_event_index, idx, current_event_count,
                   current_time, queue, now, broken>>

\* The connection is in the while loop of sse_test_server.py lines 184-201.
InPollingLoop(s) == spc[s] \in {"t_poll", "t_loop", "t_hb", "t_hb_y"}

\* The client goes away: GeneratorExit at the yield where the generator is
\* suspended; at line 179 it propagates, inside the loop lines 199-201 break.
TestDisconnect(s) ==
    /\ spc[s] = "t_connected" \/ InPollingLoop(s)
    /\ atYield[s]
    /\ Raise(s, "GeneratorExit")
    /\ spc' = [spc EXCEPT ![s] = "t_closed"]
    /\ UNCHANGED <<dvars, sse_events, sse_connections, sse_lock, pvars, rpc, rvars,
                   registered_at, last_event_index, idx, current_event_count,
                   last_heartbeat, current_time, queue, now, broken>>

TestPubStep(p) ==
    \/ TestBroadcastAppend(p)
    \/ TestBroadcastTrim(p)

TestSessRun(s) ==
    \/ TestEvents(s)
    \/ TestStart(s)
    \/ TestReadIndex(s)
    \/ TestPollCount(s)
    \/ TestPollRead(s)
    \/ TestHeartbeat(s)

\* ---------------------------------------------------------- specification
PubStep(p) ==
    \/ BroadcastBuild(p)
    \/ BroadcastAcquire(p)
    \/ BroadcastAppend(p)
    \/ BroadcastTrim(p)
    \/ BroadcastPush(p)
    \/ BroadcastRemoveDead(p)

\* The steps of a session that its own thread takes when it is scheduled.
SessRun(s) ==
    \/ EventsAcquire(s)
    \/ EventsRegister(s)
    \/ Start(s)
    \/ ReadIndex(s)
    \/ ReplayCheck(s)
    \/ ReplayRead(s)
    \/ QueueGet(s)
    \/ PollCount(s)
    \/ FallbackCheck(s)
    \/ FallbackRead(s)
    \/ Heartbeat(s)
    \/ CleanupAcquire(s)
    \/ CleanupRemove(s)

\* The steps the client decides.
SessEnd(s) ==
    \/ CloseUnstarted(s)
    \/ Disconnect(s)

Next ==
    \/ \E p \in Pubs : PubStep(p)
    \/ \E s \in Sess : SessRun(s) \/ SessEnd(s)

Spec == Init /\ [][Next]_vars

\* Spec with the clock running: one request thread, one broadcast_sse call,
\* one connection.  (In Spec the clock stands still: everything happens
\* within the first heartbeat interval.)
InitTime == InitWith({"s1"}, {"p1"}, 1, {})

NextTime == Next \/ Tick

SpecTime == InitTime /\ [][NextTime]_vars

\* Two streaming connections and one request thread.
InitTwo == InitWith(Sess, {"p1"}, MaxPubTwo, {})

SpecTwo == InitTwo /\ [][Next]_vars

\* One create_user request (p1) and one delete_user request (p2), from
\* callers that are or are not logged in, each naming u1 (a row that
\* exists), u2 (one that does not) or, for create_user, no username; one
\* streaming connection.
InitReq ==
    /\ InitCore({"s1"}, Pubs, Cardinality(Pubs), {})
    /\ rpc = [p \in Pubs |-> "start"]
    /\ logged_in \in [Pubs -> BOOLEAN]
    /\ req_user \in [Pubs -> Users \cup {"none"}]
    /\ req_user["p2"] # "none"
    /\ users = {"u1"}
    /\ committed = [p \in Pubs |-> FALSE]
    /\ RetryOff

NextReq == Next \/ \E p \in Pubs : ReqStep(p)

SpecReq == InitReq /\ [][NextReq]_vars

\* The polling revision with one request thread and one connection, the clock
\* running; every thread keeps being scheduled and nothing forces the client
\* to disconnect.
InitPoll == InitWith({"s1"}, {"p1"}, MaxPubPoll, {})

NextPoll ==
    \/ \E p \in Pubs : TestPubStep(p)
    \/ \E s \in Sess : TestSessRun(s) \/ TestDisconnect(s)
    \/ Tick

SpecPoll ==
    /\ InitPoll
    /\ [][NextPoll]_vars
    /\ \A p \in Pubs : WF_vars(TestPubStep(p))
    /\ \A s \in Sess : WF_vars(TestSessRun(s))

\* init_db_with_retry alone, before the server starts (lines 388-390), for
\* every max_retries and delay up to the bounds and every outcome of each
\* attempt; the main thread keeps running.
InitRetry ==
    /\ InitCore({}, {}, 0, {})
    /\ rpc = [p \in Pubs |-> "direct"]
    /\ logged_in = [p \in Pubs |-> FALSE]
    /\ req_user = [p \in Pubs |-> "none"]
    /\ users = {}
    /\ committed = [p \in Pubs |-> FALSE]
    /\ ipc = "loop"
    /\ max_retries \in 1..MaxRetries
    /\ delay \in 1..MaxDelay
    /\ attempt = 0
    /\ tries = 0
    /\ slept = 0

NextRetry ==
    \/ RetryLoop
    \/ RetryTry
    \/ RetryExcept
    \/ RetrySleep

SpecRetry == InitRetry /\ [][NextRetry]_vars /\ WF_vars(NextRetry)

\* Every thread keeps being scheduled: the request threads finish their
\* broadcast_sse call and the server keeps iterating each response generator.
\* Nothing forces a client to disconnect.
SpecFair ==
    /\ Init
    /\ [][Next]_vars
    /\ \A p \in Pubs : WF_vars(PubStep(p))
    /\ \A s \in Sess : WF_vars(SessRun(s))

\* Only the request threads are scheduled fairly, and a connection thread
\* inside a "with sse_lock" block runs to the end of the block (lines 96-99,
\* 163-168).  Nothing makes a session start, read its queue or emit.
InitUnread == InitWith({"s1"}, Pubs, MaxPubUnread, {})

SpecPubFair ==
    /\ InitUnread
    /\ [][Next]_vars
    /\ \A p \in Pubs : WF_vars(PubStep(p))
    /\ \A s \in Sess : WF_vars(EventsRegister(s)) /\ WF_vars(CleanupRemove(s))

\* put_nowait on the unbounded queue.Queue() of line 94 does not raise
\* queue.Full, so Spec has broken = {}.  SpecFault also explores what lines
\* 78-85 do when the push to s1's queue raises all the same (the bare except
\* catches any exception).
InitFault == \E B \in SUBSET {"s1"} : InitWith({"s1"}, Pubs, MaxPub, B)

SpecFault == InitFault /\ [][Next]_vars

\* The same with two connections, any of which may be the failing ones, and
\* one request thread.
InitFaultTwo == \E B \in SUBSET Sess : InitWith(Sess, {"p1"}, MaxPubDead, B)

SpecFaultTwo == InitFaultTwo /\ [][Next]_vars

\* ------------------------------------------------------------ properties
\* An emitted item that is a published event (not connected or heartbeat).
IsEvent(item) == item.n > 0

Ended(s) == spc[s] \in {"finally", "remove", "closed", "closed_unstarted"}

\* No call of broadcast_sse is between its append and its eviction.
NoAppendInProgress == \A p \in Pubs : bpc[p] # "trim"

\* C1: a stream session never emits the same published event twice, counting
\* replay, queue drain and fallback poll together.
NoDoubleEmission ==
    \A s \in Sess : \A i, j \in DOMAIN emitted[s] :
        (i < j /\ IsEvent(emitted[s][i])) => emitted[s][i].n # emitted[s][j].n

\* C2: a subscriber's queue never holds two entries with the same 'id'.
QueueIdsDistinct ==
    \A s \in Sess : \A i, j \in DOMAIN queue[s] :
        i < j => queue[s][i].id # queue[s][j].id

\* C3: the 'id's of the events a subscriber observes (replay, then live) are
\* strictly increasing.
ObservedIdsIncreasing ==
    \A s \in Sess : \A i, j \in DOMAIN emitted[s] :
        (i < j /\ IsEvent(emitted[s][i]) /\ IsEvent(emitted[s][j]))
            => emitted[s][i].id < emitted[s][j].id

\* C4: within one session no event is emitted after an event that was
\* published later; connected and heartbeat items are ignored.
EmittedInPublishOrder ==
    \A s \in Sess : \A i, j \in DOMAIN emitted[s] :
        (i < j /\ IsEvent(emitted[s][i]) /\ IsEvent(emitted[s][j]))
            => emitted[s][i].n <= emitted[s][j].n

\* C5: the 'id's of the events retained in the log increase by exactly one
\* from each entry to the next.
LogIdsConsecutive ==
    \A j \in 1..(Len(sse_events) - 1) :
        sse_events[j + 1].id = sse_events[j].id + 1

\* C6: whenever no publish is between its append and its eviction, the log
\* holds exactly the min(appended, LogBound) most recently appended events,
\* oldest first; so after LogBound + M appends its head is the (M+1)-th.
BoundedHistory ==
    NoAppendInProgress =>
        /\ Len(sse_events) = (IF appended < LogBound THEN appended ELSE LogBound)
        /\ \A j \in 1..Len(sse_events) :
               sse_events[j].n = appended - Len(sse_events) + j

\* C6 witness: more events were published than the log holds, and the
\* publish that evicted has completed.
BoundedHistoryWitness ==
    /\ appended > LogBound
    /\ \A p \in Pubs : bpc[p] \in {"idle", "lock"}
    /\ Len(sse_events) = LogBound
    /\ sse_events[1].n = appended - LogBound + 1

\* Event number n has just been appended while s is in the registry (the
\* appending call still holds sse_lock, so s is registered through its fan-out).
PublishedWhileRegistered(s, n) ==
    /\ Registered(s)
    /\ appended = n
    /\ \E p \in Pubs : bpc[p] = "trim"

EmittedTo(s, n) == \E i \in DOMAIN emitted[s] : emitted[s][i].n = n

\* The client closed the connection.
Disconnected(s) == exc[s] = "GeneratorExit" \/ spc[s] = "closed_unstarted"

\* C7: every event published while a subscriber is registered is eventually
\* emitted to that subscriber's client, unless the client disconnects.
EventuallyDelivered ==
    \A s \in Sess : \A n \in 1..MaxPub :
        PublishedWhileRegistered(s, n) ~> (EmittedTo(s, n) \/ Disconnected(s))

\* C7 with "the session keeps running" read as: the generator has not ended,
\* for whatever reason.
EventuallyDeliveredOrEnded ==
    \A s \in Sess : \A n \in 1..MaxPub :
        PublishedWhileRegistered(s, n) ~> (EmittedTo(s, n) \/ Ended(s))

\* Number of times s occurs in the registry.
Occurrences(s) == Cardinality({j \in 1..Len(sse_connections) : sse_connections[j] = s})

\* C8: when a started session ends, by GeneratorExit at any yield or by an
\* exception, its finally block leaves the registry without its queue and
\* with every other entry in place (a no-op when the publisher had already
\* dropped the queue); once it has ended it stays ended and no broadcast_sse
\* pushes onto its queue.
CleanupOnExit ==
    [][\A s \in Sess :
          /\ Occurrences(s)' <= 1
          /\ (spc[s] = "remove" /\ spc'[s] = "closed") =>
                 sse_connections' = SelectSeq(sse_connections, LAMBDA c : c # s)
          /\ spc'[s] = "closed" => ~Registered(s)'
          /\ spc[s] = "closed" => (spc'[s] = "closed" /\ queue'[s] = queue[s])
      ]_vars

\* C8 witness: the publisher dropped s1's queue as dead, s1 then ended and
\* ran its own removal, and a later broadcast_sse is fanning out.
CleanupOnExitWitness ==
    /\ spc["s1"] = "closed"
    /\ exc["s1"] # "none"
    /\ \E p, q \in Pubs :
          /\ p # q
          /\ bpc[p] = "idle" /\ dead_connections[p] # <<>>
          /\ bpc[q] = "fanout"

\* The session exists and has not finished: from the creation of its
\* generator to the end of its finally block.
ActivelyRunning(s) == spc[s] = "created" \/ Running(s) \/ spc[s] \in {"finally", "remove"}

\* C9: a queue is in the registry if and only if its session is actively
\* running.
RegisteredIffRunning ==
    \A s \in Sess : Registered(s) <=> ActivelyRunning(s)

\* C10: every broadcast_sse call that has begun completes, whether or not any
\* subscriber ever reads its queue, and a session holds sse_lock only inside
\* its registration and its cleanup, never at a yield or in the sleep.
PublishNeverWaitsForSubscriber ==
    /\ \A p \in Pubs : (bpc[p] \notin {"idle", "off"}) ~> (bpc[p] = "idle")
    /\ [](\A s \in Sess : sse_lock = s => (spc[s] \in {"reg", "remove"} /\ ~atYield[s]))

\* C10 witness: every publish has completed while the registered subscriber
\* has read nothing, its queue holding every event.
PublishNeverWaitsWitness ==
    /\ remaining = 0
    /\ \A p \in Pubs : bpc[p] = "idle"
    /\ Registered("s1")
    /\ spc["s1"] \in {"created", "connected"}
    /\ Len(queue["s1"]) = MaxPubUnread

\* s has gone through its registration (lines 96-99).
HasRegistered(s) == spc[s] \notin {"absent", "new", "reg"}

InQueue(s, n) == \E i \in DOMAIN queue[s] : queue[s][i].n = n

\* A broadcast_sse call has finished its fan-out loop: every queue in the
\* registry holds its event, or the session has already taken it out.
FanOutReachesRegistered ==
    \A p \in Pubs :
        (bpc[p] = "fanout" /\ fan_i[p] >= Len(sse_connections)) =>
            \A s \in Sess :
                Registered(s) => (InQueue(s, entry_n[p]) \/ EmittedTo(s, entry_n[p]))

\* C11: an event published after a subscriber registered (Y) reaches every
\* registered subscriber, and an event published before a subscriber
\* registered (X) is never emitted to that subscriber's client.
OnlyEarlierSubscribersReceive ==
    /\ FanOutReachesRegistered
    /\ \A s \in Sess : \A n \in 1..appended :
           (HasRegistered(s) /\ n <= registered_at[s]) => ~EmittedTo(s, n)

\* C11 as amended: Y is pushed onto the queue of every registered subscriber,
\* and X is never pushed onto the queue of a subscriber that registered after
\* it (that subscriber's replay may still emit X).
OnlyEarlierSubscribersQueued ==
    /\ FanOutReachesRegistered
    /\ \A s \in Sess : \A n \in 1..appended :
           (HasRegistered(s) /\ n <= registered_at[s]) => ~InQueue(s, n)

\* C11 witness: s1 registered before X (event 1), s2 between X and Y (event
\* 2); both have emitted Y, s1 has emitted X and s2 has emitted X as well,
\* from its replay.
TwoSubscribersWitness ==
    /\ registered_at["s1"] = 0 /\ registered_at["s2"] = 1
    /\ appended = 2
    /\ EmittedTo("s1", 1) /\ EmittedTo("s1", 2)
    /\ EmittedTo("s2", 1) /\ EmittedTo("s2", 2)
    /\ queue["s2"] = <<>>

\* The published events s has emitted, in the order it emitted them.
EmittedEvents(s) == SelectSeq(emitted[s], IsEvent)

\* The last ReplayWindow entries of the log (all of it when it is shorter).
RecentHistory ==
    IF Len(sse_events) <= ReplayWindow THEN sse_events
    ELSE SubSeq(sse_events, Len(sse_events) - ReplayWindow + 1, Len(sse_events))

\* s registered right after an event was appended, nothing has been published
\* since, and s is through its replay.
ReplayedWithoutFurtherPublish(s) ==
    /\ spc[s] \in {"live", "poll", "hb"}
    /\ registered_at[s] > 0
    /\ registered_at[s] = appended

AtomicAppendAndFanOut ==
    [][\A p \in Pubs :
          /\ (bpc[p] \in {"trim", "fanout"} /\ bpc'[p] # "idle") =>
                 sse_connections' = sse_connections
          /\ \A s \in Sess :
                 Len(queue'[s]) > Len(queue[s]) =>
                     \E q \in Pubs :
                         /\ bpc[q] = "fanout"
                         /\ Registered(s)
                         /\ queue'[s] = Append(queue[s], sse_events[Len(sse_events)])
                         /\ sse_events[Len(sse_events)].n = entry_n[q]
          /\ (bpc[p] = "fanout" /\ bpc'[p] = "idle") =>
                 \A s \in Sess :
                     /\ Registered(s) =>
                            (InQueue(s, entry_n[p]) \/ EmittedTo(s, entry_n[p]))
                     /\ InQueue(s, entry_n[p]) => Registered(s)
      ]_vars

\* C13 witness: a fan-out has pushed its event onto both queues while s2,
\* whose generator has ended, waits for the lock to remove itself.
AtomicAppendAndFanOutWitness ==
    /\ bpc["p1"] = "fanout"
    /\ fan_i["p1"] = 2
    /\ spc["s2"] = "finally"
    /\ InQueue("s1", entry_n["p1"])
    /\ InQueue("s2", entry_n["p1"])

\* C14: the entries of a queue are in the order in which they were appended
\* to the log, and an entry put on a queue is the most recently appended one,
\* hence later than every entry put there before.
QueueInAppendOrder ==
    /\ [](\A s \in Sess : \A i, j \in DOMAIN queue[s] :
             i < j => queue[s][i].n < queue[s][j].n)
    /\ [][\A s \in Sess :
             Len(queue'[s]) > Len(queue[s]) =>
                 queue'[s][Len(queue'[s])].n = appended]_vars

\* C14 witness: a queue holds the events of two request threads whose
\* broadcast_sse calls overlapped (the second was built before the first
\* appended, so both carry the same 'id').
QueueInAppendOrderWitness ==
    /\ Len(queue["s1"]) >= 2
    /\ queue["s1"][1].event # queue["s1"][2].event
    /\ queue["s1"][1].id = queue["s1"][2].id

\* The entries of l that request thread p published.
EntriesOf(p, l) == SelectSeq(l, LAMBDA e : e.event = EventOf(p))

\* Nothing of request p is in the log, in a queue or emitted, and p is not in
\* broadcast_sse.
NothingPublished(p) ==
    /\ bpc[p] = "idle"
    /\ rpc[p] \notin {"call", "in", "ok"}
    /\ EntriesOf(p, sse_events) = <<>>
    /\ \A s \in Sess : EntriesOf(p, queue[s]) = <<>> /\ EntriesOf(p, emitted[s]) = <<>>

\* C15: a request whose commit has not succeeded (the directory call or the
\* commit failed, or it was rejected earlier) has published nothing, and a
\* request that has returned success has published exactly one event.
PublishOnlyAfterCommit ==
    \A p \in Pubs :
        /\ ~committed[p] => NothingPublished(p)
        /\ Len(EntriesOf(p, sse_events)) <= 1
        /\ rpc[p] = "ok" => Len(EntriesOf(p, sse_events)) = 1

\* C15 witness: the create_user request failed and published nothing, the
\* delete_user request succeeded and its one event is in the log.
PublishOnlyAfterCommitWitness ==
    /\ rpc["p1"] = "r500" /\ ~committed["p1"]
    /\ rpc["p2"] = "ok" /\ committed["p2"]
    /\ Len(sse_events) = 1
    /\ EntriesOf("p2", emitted["s1"]) # <<>>

\* C16: on behalf of a caller that is not logged in no user row is changed and
\* nothing is published.
AuthenticationGate ==
    \A p \in Pubs : ~logged_in[p] => (~committed[p] /\ NothingPublished(p))

\* C17: a failing push does not end the fan-out pass, and when the pass ends
\* every registered subscriber whose push did not fail has got the event, the
\* call returns, and the registry is the old one without the failing
\* subscribers, the others in their original order.
FailedPushIsolated ==
    [][\A p \in Pubs :
          /\ bpc[p] = "fanout" => bpc'[p] \in {"fanout", "idle"}
          /\ (bpc[p] = "fanout" /\ bpc'[p] = "idle") =>
                /\ \A s \in Sess :
                       (Registered(s) /\ s \notin broken) =>
                           (InQueue(s, entry_n[p]) \/ EmittedTo(s, entry_n[p]))
                /\ sse_connections' =
                       SelectSeq(sse_connections, LAMBDA c : c \notin broken)
                /\ sse_lock' = NoLock
      ]_vars

\* C17 witness: with s1 and s2 registered, in this order, the push to s1
\* failed; the call has returned, s2 has the event and is alone in the
\* registry.
FailedPushIsolatedWitness ==
    /\ broken = {"s1"}
    /\ bpc["p1"] = "idle" /\ appended = 1
    /\ dead_connections["p1"] = <<0>>
    /\ sse_connections = <<"s2">>
    /\ InQueue("s2", 1)
    /\ queue["s1"] = <<>>

\* Both pushes failed and both subscribers were removed.
AllPushesFailed ==
    /\ broken = Sess
    /\ bpc["p1"] = "idle"
    /\ dead_connections["p1"] = <<0, 1>>
    /\ sse_connections = <<>>

IsHeartbeat(item) == item.event = "heartbeat"

\* Session s emits a heartbeat in this step.
EmitsHeartbeat(s) ==
    /\ Len(emitted'[s]) > Len(emitted[s])
    /\ IsHeartbeat(emitted'[s][Len(emitted'[s])])

Phase(pc) ==
    IF pc \in {"absent", "new", "reg", "created", "connected"} THEN 0
    ELSE IF pc \in {"replay", "replay_read"} THEN 1
    ELSE IF pc \in {"live", "poll", "fb", "fb_read", "hb", "hb_y"} THEN 2
    ELSE 3

\* The number of published events among the items emitted to s.
EventCount(s) == Len(SelectSeq(emitted[s], IsEvent))

\* C19: a session never goes back to an earlier state; the connected item is
\* the first item it emits and only the first; until it is live it has
\* emitted at most ReplayWindow events, all of them while replaying; and once
\* it has closed it emits nothing.
SessionPhases ==
    /\ [](\A s \in Sess :
             /\ \A i \in DOMAIN emitted[s] : (emitted[s][i] = ConnectedItem) <=> (i = 1)
             /\ Phase(spc[s]) = 0 => EventCount(s) = 0
             /\ Phase(spc[s]) = 1 => EventCount(s) <= ReplayWindow)
    /\ [][\A s \in Sess :
             /\ Phase(spc'[s]) >= Phase(spc[s])
             /\ Phase(spc[s]) = 3 => emitted'[s] = emitted[s]
             /\ (Phase(spc[s]) < 2 /\ Phase(spc'[s]) = 3) => EventCount(s)' <= ReplayWindow
       ]_vars

\* C19 witness: a closed session that emitted the connected item, one event
\* published before it registered (replayed) and one published after (live),
\* with more events in the log at its start than it replayed.
SessionPhasesWitness ==
    /\ spc["s1"] = "closed"
    /\ Len(emitted["s1"]) >= 3
    /\ emitted["s1"][1] = ConnectedItem
    /\ IsEvent(emitted["s1"][2]) /\ emitted["s1"][2].n <= registered_at["s1"]
    /\ IsEvent(emitted["s1"][3]) /\ emitted["s1"][3].n > registered_at["s1"]
    /\ registered_at["s1"] > ReplayWindow

\* An entry a broadcast_sse call built.
IsPublished(e) == e.n > 0 /\ e.event \in {EventOf(p) : p \in Pubs}

\* C20: the log changes only in the append and the eviction of a
\* broadcast_sse call and a queue grows only in its fan-out; no step of a
\* stream session changes the log; connected and heartbeat items are neither
\* in the log nor in any queue.
SingleWriter ==
    /\ [](/\ \A j \in DOMAIN sse_events : IsPublished(sse_events[j])
          /\ \A s \in Sess : \A j \in DOMAIN queue[s] : IsPublished(queue[s][j]))
    /\ [][/\ sse_events' # sse_events =>
                \E p \in Pubs : bpc[p] \in {"append", "trim"} /\ bpc'[p] # bpc[p]
          /\ (\E s \in Sess : Len(queue'[s]) > Len(queue[s])) =>
                \E p \in Pubs : bpc[p] = "fanout" /\ fan_i'[p] = fan_i[p] + 1
          /\ svars' # svars => sse_events' = sse_events
       ]_vars

\* C20 witness: the session has emitted the connected item, a published
\* event and a heartbeat and has cleaned up; the log holds the one published
\* event.
SingleWriterWitness ==
    /\ spc["s1"] = "closed"
    /\ \E i, j \in DOMAIN emitted["s1"] :
           IsEvent(emitted["s1"][i]) /\ IsHeartbeat(emitted["s1"][j])
    /\ emitted["s1"][1] = ConnectedItem
    /\ Len(sse_events) = 1
    /\ bpc["p1"] = "idle"

\* C21: a step by which a session terminates (GeneratorExit or an error at a
\* yield, the steps of its finally block, or being closed unstarted) leaves
\* the log and every other session's registration, queue, positions and
\* output unchanged; the registry changes only at the end of the finally
\* block, and then only by losing the terminating session's own queue.
TerminationIsLocal ==
    [][\A s \in Sess :
          (Ended(s)' /\ spc'[s] # spc[s]) =>
              /\ sse_events' = sse_events
              /\ sse_connections' =
                     (IF spc'[s] = "closed"
                      THEN SelectSeq(sse_connections, LAMBDA c : c # s)
                      ELSE sse_connections)
              /\ \A t \in Sess \ {s} :
                     /\ Registered(t)' = Registered(t)
                     /\ queue'[t] = queue[t]
                     /\ last_event_index'[t] = last_event_index[t]
                     /\ idx'[t] = idx[t]
                     /\ current_event_count'[t] = current_event_count[t]
                     /\ spc'[t] = spc[t]
                     /\ emitted'[t] = emitted[t]
      ]_vars

\* C21 witness: s2, which registered after s1, was disconnected and has
\* cleaned up, while s1 is still registered with an event waiting in its
\* queue and a replay position behind it.
TerminationIsLocalWitness ==
    /\ spc["s2"] = "closed" /\ exc["s2"] = "GeneratorExit"
    /\ Running("s1") /\ sse_connections = <<"s1">>
    /\ queue["s1"] # <<>>
    /\ last_event_index["s1"] > 0
    /\ registered_at["s1"] < registered_at["s2"]

\* C22: in the polling revision every event appended while a connection is
\* in its polling loop is eventually emitted by that connection, unless the
\* client disconnects.
PollingDelivers ==
    \A s \in Sess : \A n \in 1..MaxPubPoll :
        (InPollingLoop(s) /\ appended = n /\ \E p \in Pubs : bpc[p] = "trim")
            ~> (EmittedTo(s, n) \/ Disconnected(s))

\* C23: init_db_with_retry terminates; it makes at most max_retries
\* attempts; when it returns, the attempt it made last is the first that
\* succeeded and it has slept delay after each attempt before it; when it
\* raises, all max_retries attempts have failed and it has slept after each
\* but the last.
RetryTerminates ==
    /\ <>(ipc \in {"returned", "raised"})
    /\ [](/\ tries <= max_retries
          /\ ipc = "returned" =>
                 /\ tries = attempt + 1
                 /\ slept = delay * attempt
          /\ ipc = "raised" =>
                 /\ tries = max_retries
                 /\ slept = delay * (max_retries - 1))
    /\ [][(ipc \in {"returned", "raised"}) => (dvars' = dvars)]_vars

\* C23 witness: every one of the MaxRetries attempts failed and the failure
\* was re-raised after MaxRetries - 1 sleeps.
RetryTerminatesWitness ==
    /\ ipc = "raised"
    /\ max_retries = MaxRetries
    /\ tries = MaxRetries
    /\ delay = MaxDelay
    /\ slept = MaxDelay * (MaxRetries - 1)

\* It returned at its third attempt.
RetryReturnedWitness ==
    /\ ipc = "returned"
    /\ tries = 3
    /\ slept = 2 * delay
    /\ max_retries > 3

====
